---- MODULE Spec2Model ----
(***************************************************************************)
(* Model of network/RestRequest.py: the RestRequest builder (configuration *)
(* calls, __getattr__ verb selection, __call__/request execution against   *)
(* the HTTP transport, status-code check) and the RestResponse wrapper.    *)
(*                                                                         *)
(* Python values are modelled as strings.  None is the value None, and     *)
(* Empty is the empty value of a type ('' or {}), which Python's truth     *)
(* test treats like None.                                                  *)
(***************************************************************************)
EXTENDS Integers, Sequences, FiniteSets, TLC

VARIABLES href, verb, user, pwd, params, data, files, accept_type,
          content_type, pc, args, calls, rsp, created, ret, jsonlog

vars == <<href, verb, user, pwd, params, data, files, accept_type,
          content_type, pc, args, calls, rsp, created, ret, jsonlog>>

builder == <<href, verb, user, pwd, params, data, files, accept_type,
             content_type>>

----------------------------------------------------------------------------
(* Bounds of the model *)

MaxMedia == 1
MaxStatus == 4
MaxBodies == 3

----------------------------------------------------------------------------
(* Values *)

None == "None"
Empty == ""

Truthy(x) == x # None /\ x # Empty

Hrefs == {"https://api.example.com/items"}

MediaPool == <<"application/json", "text/plain", "application/xml">>
MediaTypes == {MediaPool[i] : i \in 1..MaxMedia}

Users == {Empty, "alice"}
Pwds == {Empty, "secret"}

DataArgs == {None, "payload"}
FilesArgs == {None, Empty, "file.bin"}
ParamsArgs == {None, "q=1"}

HTTP_VERBS == {"delete", "get", "head", "options", "patch", "post", "put",
               "trace"}

HTTP_STATUS_OK == 200
HTTP_STATUS_CREATED == 201
HTTP_STATUS_NO_CONTENT == 204

HTTP_HEADER_ACCEPT == "accept"
HTTP_HEADER_CONTENT_TYPE == "content-type"

StatusPool == <<200, 201, 204, 404, 500, 302>>
StatusCodes == {StatusPool[i] : i \in 1..MaxStatus}

BodyPool == <<"", "{\"id\":1}", "<html>not found</html>", "[]", "oops">>
Bodies == {BodyPool[i] : i \in 1..MaxBodies}

UnknownNames == {"foobar", "GET"}
AttrNames == HTTP_VERBS \cup UnknownNames

InstanceAttrs == {"href", "verb", "user", "pwd", "params", "data", "files",
                  "accept_type", "content_type"}

----------------------------------------------------------------------------
(* Outcomes of an operation: a returned value or a raised exception *)

Outcome(k, c, n) == [kind |-> k, content |-> c, code |-> n]

NoOutcome == Outcome("none", "", 0)
ReturnSelf == Outcome("self", "", 0)

NoRsp == [status_code |-> 0, content |-> ""]

NoArgs == [data |-> None, files |-> None, params |-> None]

----------------------------------------------------------------------------
(* Python dictionaries *)

EmptyDict == [k \in {} |-> ""]

Update(d, e) ==
  [k \in DOMAIN d \cup DOMAIN e |-> IF k \in DOMAIN e THEN e[k] ELSE d[k]]

hasattr(name) == name \in InstanceAttrs

----------------------------------------------------------------------------
(* RestRequest helpers *)

is_verb_no_trace(name) == name \in HTTP_VERBS \ {"trace"}

is_verb(name) == name \in HTTP_VERBS

is_multipart_request(f) == Truthy(f)

get_content_header_always(f, ct) == [k \in {HTTP_HEADER_CONTENT_TYPE} |-> ct]

get_content_header(f, ct) ==
  IF is_multipart_request(f) THEN EmptyDict
  ELSE IF hasattr("content_type")
       THEN [k \in {HTTP_HEADER_CONTENT_TYPE} |-> ct]
       ELSE EmptyDict

get_accept_header(at) == [k \in {HTTP_HEADER_ACCEPT} |-> at]

b64encode(s) == "b64(" \o s \o ")"

credentials_invalid_and(u, p) == ~Truthy(u) /\ ~Truthy(p)

credentials_invalid(u, p) == ~Truthy(u) \/ ~Truthy(p)

get_basic_authn_header(u, p) ==
  [k \in {"Authorization"} |-> "Basic " \o b64encode(u \o ":" \o p)]

prepare_headers(u, p, f, ct, at) ==
  LET h0 == get_basic_authn_header(u, p)
      h1 == IF hasattr("content_type")
            THEN Update(h0, get_content_header(f, ct)) ELSE h0
  IN  IF hasattr("accept_type")
      THEN Update(h1, get_accept_header(at)) ELSE h1

verb_upper_never_raises(v) == FALSE

verb_upper_raises(v) == v = None

request_call_both(v, url, h, p, f, d) ==
  [verb |-> v, url |-> url, headers |-> h, params |-> p,
   files |-> f, data |-> d]

request_call(v, url, h, p, f, d) ==
  IF is_multipart_request(f)
  THEN [verb |-> v, url |-> url, headers |-> h, params |-> p,
        files |-> f, data |-> None]
  ELSE [verb |-> v, url |-> url, headers |-> h, params |-> p,
        files |-> None, data |-> d]

check_return_code_post_ok_only(v, code) ==
  \/ v = "get" /\ ~(code = HTTP_STATUS_OK)
  \/ v = "post" /\ ~(code = HTTP_STATUS_OK)
  \/ v = "delete" /\ ~(code = HTTP_STATUS_NO_CONTENT)

check_return_code_put_checked(v, code) ==
  \/ v \in {"get", "put"} /\ ~(code = HTTP_STATUS_OK)
  \/ v = "post" /\ ~(code = HTTP_STATUS_OK) /\ ~(code = HTTP_STATUS_CREATED)
  \/ v = "delete" /\ ~(code = HTTP_STATUS_NO_CONTENT)

check_return_code(v, code) ==
  \/ v = "get" /\ ~(code = HTTP_STATUS_OK)
  \/ v = "post" /\ ~(code = HTTP_STATUS_OK) /\ ~(code = HTTP_STATUS_CREATED)
  \/ v = "delete" /\ ~(code = HTTP_STATUS_NO_CONTENT)

call_store_keep_files(d, f, p) ==
  [data |-> d, files |-> IF f = None THEN files ELSE f, params |-> p]

call_store(d, f, p) == [data |-> d, files |-> f, params |-> p]

----------------------------------------------------------------------------
(* RestResponse helpers and collaborators *)

ValidJson == {"{\"id\":1}", "[]"}

json(content) == [ok |-> content \in ValidJson,
                  value |-> "json(" \o content \o ")"]

Resource(raw) == "Resource(" \o raw \o ")"

body_not_empty_always(content) == TRUE

body_not_empty(content) == content # Empty

----------------------------------------------------------------------------
(* Initial state: RestRequest(href) *)

Init ==
  /\ href \in Hrefs
  /\ verb = None
  /\ user = None
  /\ pwd = None
  /\ params = None
  /\ data = None
  /\ files = None
  /\ accept_type = None
  /\ content_type = None
  /\ pc = "idle"
  /\ args = NoArgs
  /\ calls = <<>>
  /\ rsp = NoRsp
  /\ created = <<>>
  /\ ret = NoOutcome
  /\ jsonlog = <<>>

----------------------------------------------------------------------------
(* Configuration calls.  The caller is sequential: once an execution has   *)
(* dispatched its request, the caller is done with the outcome (Discard)   *)
(* before it uses the builder again, to configure or to execute.           *)
(* RestResponse holds no reference to the builder and Discard leaves the   *)
(* builder alone, so this drops no state of either object.                 *)

auth(u, p) ==
  /\ pc = "idle"
  /\ calls = <<>>
  /\ user' = u
  /\ pwd' = p
  /\ ret' = ReturnSelf
  /\ UNCHANGED <<href, verb, params, data, files, accept_type, content_type,
                 pc, args, calls, rsp, created, jsonlog>>

accept(media_type) ==
  /\ pc = "idle"
  /\ calls = <<>>
  /\ accept_type' = media_type
  /\ ret' = ReturnSelf
  /\ UNCHANGED <<href, verb, user, pwd, params, data, files, content_type,
                 pc, args, calls, rsp, created, jsonlog>>

as_(media_type) ==
  /\ pc = "idle"
  /\ calls = <<>>
  /\ content_type' = media_type
  /\ ret' = ReturnSelf
  /\ UNCHANGED <<href, verb, user, pwd, params, data, files, accept_type,
                 pc, args, calls, rsp, created, jsonlog>>

getattr_(name) ==
  /\ pc = "idle"
  /\ calls = <<>>
  /\ IF is_verb(name)
     THEN /\ verb' = name
          /\ ret' = ReturnSelf
     ELSE /\ verb' = verb
          /\ ret' = Outcome("AttributeError", name, 0)
  /\ UNCHANGED <<href, user, pwd, params, data, files, accept_type,
                 content_type, pc, args, calls, rsp, created, jsonlog>>

----------------------------------------------------------------------------
(* Execution: __call__ and request, up to the transport call *)

Call(d, f, p) ==
  /\ pc = "idle"
  /\ calls = <<>>
  /\ LET st == call_store(d, f, p) IN
     /\ data' = st.data
     /\ files' = st.files
     /\ params' = st.params
     /\ args' = [data |-> d, files |-> f, params |-> p]
     /\ rsp' = NoRsp
     /\ created' = <<>>
     /\ IF verb_upper_raises(verb)
        THEN /\ ret' = Outcome("AttributeError", "upper", 0)
             /\ calls' = <<>>
             /\ pc' = "idle"
        ELSE IF credentials_invalid(user, pwd)
        THEN /\ ret' = Outcome("ValueError",
                               "login name or password is invalid.", 0)
             /\ calls' = <<>>
             /\ pc' = "idle"
        ELSE /\ ret' = NoOutcome
             /\ calls' = <<request_call(verb, href,
                              prepare_headers(user, pwd, st.files,
                                              content_type, accept_type),
                              st.params, st.files, st.data)>>
             /\ pc' = "awaiting"
  /\ UNCHANGED <<href, verb, user, pwd, accept_type, content_type, jsonlog>>

(* requests.request returns a response *)
Receive(code, body) ==
  /\ pc = "awaiting"
  /\ rsp' = [status_code |-> code, content |-> body]
  /\ pc' = "checking"
  /\ UNCHANGED <<builder, args, calls, created, ret, jsonlog>>

(* requests.request raises; the exception propagates out of request *)
TransportRaise ==
  /\ pc = "awaiting"
  /\ ret' = Outcome("TransportError", "", 0)
  /\ pc' = "idle"
  /\ UNCHANGED <<builder, args, calls, rsp, created, jsonlog>>

Check ==
  /\ pc = "checking"
  /\ IF check_return_code(verb, rsp.status_code)
     THEN /\ ret' = Outcome("Exception", rsp.content, 0)
          /\ pc' = "idle"
     ELSE /\ ret' = ret
          /\ pc' = "wrapping"
  /\ UNCHANGED <<builder, args, calls, rsp, created, jsonlog>>

Wrap ==
  /\ pc = "wrapping"
  /\ created' = <<[response |-> rsp]>>
  /\ ret' = Outcome("RestResponse", rsp.content, rsp.status_code)
  /\ pc' = "idle"
  /\ UNCHANGED <<builder, args, calls, rsp, jsonlog>>

----------------------------------------------------------------------------
(* RestResponse operations on the wrapper of the latest execution *)

resource ==
  /\ pc = "idle"
  /\ Len(created) = 1
  /\ LET content == created[1].response.content IN
     IF body_not_empty(content)
     THEN /\ jsonlog' = <<content>>
          /\ ret' = IF json(content).ok
                    THEN Outcome("Resource", Resource(json(content).value), 0)
                    ELSE Outcome("JSONDecodeError", content, 0)
     ELSE /\ jsonlog' = <<>>
          /\ ret' = Outcome("None", "", 0)
  /\ UNCHANGED <<builder, pc, args, calls, rsp, created>>

status ==
  /\ pc = "idle"
  /\ Len(created) = 1
  /\ ret' = Outcome("status", "", created[1].response.status_code)
  /\ UNCHANGED <<builder, pc, args, calls, rsp, created, jsonlog>>

(* The caller drops the outcome of the latest execution; RestResponse has  *)
(* no teardown, and the builder is not touched.                            *)
Discard ==
  /\ pc = "idle"
  /\ calls # <<>>
  /\ calls' = <<>>
  /\ rsp' = NoRsp
  /\ created' = <<>>
  /\ ret' = NoOutcome
  /\ jsonlog' = <<>>
  /\ UNCHANGED <<builder, pc, args>>

----------------------------------------------------------------------------

Next ==
  \/ \E u \in Users, p \in Pwds : auth(u, p)
  \/ \E m \in MediaTypes : accept(m)
  \/ \E m \in MediaTypes : as_(m)
  \/ \E n \in AttrNames : getattr_(n)
  \/ \E d \in DataArgs, f \in FilesArgs, p \in ParamsArgs : Call(d, f, p)
  \/ \E c \in StatusCodes, b \in Bodies : Receive(c, b)
  \/ TransportRaise
  \/ Check
  \/ Wrap
  \/ resource
  \/ status
  \/ Discard

Spec == Init /\ [][Next]_vars

----------------------------------------------------------------------------
(* Vocabulary of the properties *)

EightVerbs == {"delete", "get", "head", "options", "patch", "post", "put",
               "trace"}

CheckedVerbs == {"get", "post", "delete"}

AcceptedCodes(v) ==
  CASE v = "get" -> {200}
    [] v = "post" -> {200, 201}
    [] v = "delete" -> {204}
    [] OTHER -> Int

NoCredentials == user \in {None, Empty} \/ pwd \in {None, Empty}

CallStep == \E d \in DataArgs, f \in FilesArgs, p \in ParamsArgs : Call(d, f, p)

(* the execution got a response from the transport and has ended *)
Answered == pc = "idle" /\ rsp # NoRsp

HeaderNames == DOMAIN calls[1].headers

----------------------------------------------------------------------------
(* C1: with credentials and verb get, post or delete, an execution that    *)
(* got a response ends with a RestResponse around that response exactly    *)
(* when the status code is in the verb's accepted set (get: 200; post:     *)
(* 200, 201; delete: 204); otherwise it raises Exception carrying the      *)
(* response body unchanged and no RestResponse is created.                 *)
C1_StatusCheck ==
  verb \in CheckedVerbs =>
    /\ pc = "wrapping" => rsp.status_code \in AcceptedCodes(verb)
    /\ Len(created) = 1 => /\ created[1].response = rsp
                           /\ rsp.status_code \in AcceptedCodes(verb)
    /\ Answered =>
         IF rsp.status_code \in AcceptedCodes(verb)
         THEN Len(created) = 1 /\ ret.kind # "Exception"
         ELSE created = <<>> /\ ret = Outcome("Exception", rsp.content, 0)

C1_Witness ==
  /\ verb = "post"
  /\ Answered
  /\ rsp.status_code = 201
  /\ Len(created) = 1

(* C5: with credentials and a verb other than get, post, delete, every     *)
(* status code the transport returns yields a RestResponse; the status     *)
(* check never raises.                                                     *)
C5_UncheckedVerbs ==
  verb \in EightVerbs \ CheckedVerbs =>
    /\ ret.kind # "Exception"
    /\ Answered => /\ Len(created) = 1
                   /\ created[1].response = rsp

C5_Witness ==
  /\ verb = "put"
  /\ Answered
  /\ rsp.status_code = 404
  /\ Len(created) = 1

C3_Headers ==
  Len(calls) = 1 =>
    /\ HTTP_HEADER_ACCEPT \in HeaderNames => accept_type # None
    /\ HTTP_HEADER_CONTENT_TYPE \in HeaderNames =>
         ~Truthy(files) /\ content_type # None
    /\ accept_type = None /\ content_type = None =>
         HeaderNames = {"Authorization"}

(* C4 as stated: whenever files is passed to the execution, the            *)
(* dispatched request has no content-type header.                          *)
C4_Original ==
  Len(calls) = 1 /\ args.files # None =>
    HTTP_HEADER_CONTENT_TYPE \notin HeaderNames

(* C4 amended: whenever a non-empty files value is passed to the           *)
(* execution, the dispatched request has no content-type header, even if   *)
(* as_ was called before.                                                  *)
C4_Multipart ==
  Len(calls) = 1 /\ args.files \notin {None, Empty} =>
    HTTP_HEADER_CONTENT_TYPE \notin HeaderNames

C4_Witness ==
  /\ Len(calls) = 1
  /\ args.files = "file.bin"
  /\ content_type \in MediaTypes
  /\ accept_type \in MediaTypes

(* C6: __getattr__ with a name outside the eight verbs raises              *)
(* AttributeError naming it and leaves every field of the builder          *)
(* unchanged; with one of the eight verbs it sets verb to the name,        *)
(* returns the builder and changes no other field.                         *)
C6_GetAttr ==
  [][\A n \in AttrNames : getattr_(n) =>
       IF n \in EightVerbs
       THEN /\ verb' = n
            /\ ret' = ReturnSelf
            /\ UNCHANGED <<href, user, pwd, params, data, files,
                           accept_type, content_type>>
       ELSE /\ ret' = Outcome("AttributeError", n, 0)
            /\ UNCHANGED builder]_vars

C6_Witness ==
  /\ ret = Outcome("AttributeError", "foobar", 0)
  /\ verb = "trace"

(* C7: resource() returns None for an empty body without calling the JSON  *)
(* collaborator, a Resource built from the parsed JSON for a non-empty     *)
(* valid body, and raises the decoder's error for a non-empty invalid      *)
(* body; status() returns the wrapped status code.                         *)
C7_Response ==
  [][/\ resource =>
          LET c == created[1].response.content IN
          /\ c = "" => ret' = Outcome("None", "", 0) /\ jsonlog' = <<>>
          /\ c # "" /\ json(c).ok =>
               /\ ret' = Outcome("Resource", Resource(json(c).value), 0)
               /\ jsonlog' = <<c>>
          /\ c # "" /\ ~json(c).ok =>
               /\ ret'.kind = "JSONDecodeError"
               /\ jsonlog' = <<c>>
     /\ status =>
          ret' = Outcome("status", "", created[1].response.status_code)]_vars

C7_Witness ==
  /\ Len(created) = 1
  /\ created[1].response.content = ""
  /\ created[1].response.status_code = 204
  /\ ret.kind = "None"
  /\ jsonlog = <<>>

(* C8: an execution with no verb selected fails before the transport is    *)
(* called, with or without credentials: nothing is dispatched and no       *)
(* RestResponse is produced.                                               *)
C8_NoVerb ==
  /\ [](Len(calls) = 1 => calls[1].verb \in EightVerbs)
  /\ [][verb = None /\ CallStep =>
          /\ pc' = "idle"
          /\ ret'.kind = "AttributeError"
          /\ calls' = <<>>
          /\ created' = <<>>]_vars

C8_Witness ==
  /\ ret = Outcome("AttributeError", "upper", 0)
  /\ verb = None
  /\ user = "alice"
  /\ pwd = "secret"

(* C9: an execution with a verb and credentials dispatches exactly one     *)
(* transport call, with the builder's verb, href, headers and params and   *)
(* either files (multipart) or data, never both; one without credentials   *)
(* dispatches none; the status check runs after the call got its response  *)
(* and before a RestResponse is created.                                   *)
C9_Dispatch ==
  /\ [](/\ Len(calls) <= 1
        /\ pc # "idle" => Len(calls) = 1
        /\ Len(created) = 1 => Len(calls) = 1 /\ rsp # NoRsp
        /\ Len(calls) = 1 =>
             LET c == calls[1] IN
             /\ c.verb = verb /\ c.url = href /\ c.params = params
             /\ "Authorization" \in DOMAIN c.headers
             /\ ~(c.files # None /\ c.data # None)
             /\ IF files \in {None, Empty}
                THEN c.files = None /\ c.data = data
                ELSE c.files = files /\ c.data = None)
  /\ [][/\ verb # None /\ ~NoCredentials /\ CallStep =>
             pc' = "awaiting" /\ Len(calls') = 1
        /\ NoCredentials /\ CallStep => calls' = <<>>
        /\ calls' # calls /\ calls' # <<>> => CallStep
        /\ pc' = "checking" => pc = "awaiting" /\ rsp' # NoRsp
        /\ pc' = "wrapping" => pc = "checking" /\ UNCHANGED <<calls, rsp>>
        /\ created' # created /\ created' # <<>> =>
             pc = "wrapping" /\ created' = <<[response |-> rsp]>>]_vars

C9_Witness ==
  /\ Len(created) = 1
  /\ files = "file.bin"
  /\ data = "payload"
  /\ calls[1].files = "file.bin"
  /\ calls[1].data = None

(* C10: href never changes; each execution replaces data, files and params *)
(* by exactly its arguments and leaves verb, credentials, accept type and  *)
(* content type alone, as does the rest of the execution; an execution     *)
(* without files is never multipart.                                       *)
C10_Frame ==
  /\ [][href' = href]_vars
  /\ [][/\ \A d \in DataArgs, f \in FilesArgs, p \in ParamsArgs :
             Call(d, f, p) =>
               /\ data' = d /\ files' = f /\ params' = p
               /\ UNCHANGED <<verb, user, pwd, accept_type, content_type>>
        /\ pc # "idle" => UNCHANGED builder]_vars
  /\ [](Len(calls) = 1 =>
          /\ data = args.data /\ files = args.files /\ params = args.params
          /\ args.files = None => calls[1].files = None)

C10_Witness ==
  /\ pc = "awaiting"
  /\ content_type \in MediaTypes
  /\ args = [data |-> "payload", files |-> None, params |-> None]
  /\ calls[1].files = None
  /\ calls[1].data = "payload"

====
